---- MODULE Spec2Model ----
(***************************************************************************)
(* Model of backend/app/main.py: a FastAPI TODO service over two SQLite    *)
(* tables (users, todos) with HTTP Basic authentication.                   *)
(*                                                                         *)
(* The async handlers (read_todos, read_todo, create_todo, update_todo,    *)
(* delete_todo) run on the event loop and never await, so each is one      *)
(* atomic action; their get_current_user dependency only reads the users   *)
(* table and is folded into the same action.  create_user is a plain def,  *)
(* so it runs on a threadpool thread and other requests can be served      *)
(* between its SELECT (line 136) and its INSERT/commit (lines 141-143):    *)
(* it is modelled as two steps of a thread.                                *)
(***************************************************************************)
EXTENDS Integers, FiniteSets

\* ---------------------------------------------------------------- bounds

MaxTodoId == 2      \* create_todo is not taken once the next rowid exceeds this
NumThreads == 2     \* threadpool threads that may be inside create_user

Usernames == {"alice", "bob"}
Passwords == {"pw1", "pw2"}
Titles == {"x", "y"}

Threads == 1..NumThreads
TodoIds == 1..MaxTodoId

\* ------------------------------------------------------------ state

VARIABLES
    users,      \* rows of table "users": [id, username, hashed_password]
    todos,      \* rows of table "todos": [id, title, completed, owner]
    thread,     \* per threadpool thread: where it is inside create_user
    last        \* the most recent HTTP response, with the request it answers

vars == <<users, todos, thread, last>>

\* class UserDB; the digests are those of get_password_hash
UserRows(digests) ==
    [id : 1..Cardinality(Usernames), username : Usernames,
     hashed_password : digests]

\* class TodoDB
TodoRows ==
    [id : TodoIds, title : Titles, completed : BOOLEAN, owner : Usernames]

\* ------------------------------------------------------- pure helpers

\* hashlib.sha256(password.encode()).hexdigest()
get_password_hash(password) ==
    CASE password = "pw1" ->
           "c592df4a86933b92addc9842402ddf198c638ea9be58916ee6e3734e1e3152f8"
      [] password = "pw2" ->
           "93915a0a4bf8f634cb1856494dd4304472ad46b9827f541f76b6761c49cc55b0"

verify_password_always(plain_password, hashed_password) == TRUE

verify_password(plain_password, hashed_password) ==
    get_password_hash(plain_password) = hashed_password

\* SQLite rowid for an INTEGER PRIMARY KEY column without AUTOINCREMENT:
\* one more than the largest id present, 1 in an empty table.
NextRowId(table) ==
    IF table = {} THEN 1
    ELSE (CHOOSE r \in table : \A q \in table : q.id <= r.id).id + 1

\* Query.first(): no row (the empty set) or one row of the result
First(rows) ==
    IF rows = {} THEN {}
    ELSE {CHOOSE r \in rows : \A q \in rows : r.id <= q.id}

\* db.query(UserDB).filter(UserDB.username == username).first()
find_user(U, username) == First({u \in U : u.username = username})

find_todo_any_owner(T, todo_id, current_user) ==
    First({t \in T : t.id = todo_id})

\* db.query(TodoDB).filter(TodoDB.id == todo_id)
\*                 .filter(TodoDB.owner == current_user).first()
find_todo(T, todo_id, current_user) ==
    First({t \in T : t.id = todo_id /\ t.owner = current_user})

\* db.query(TodoDB).filter(TodoDB.owner == current_user).all()
list_todos(T, current_user) == {t \in T : t.owner = current_user}

\* ------------------------------------------------------------ requests

\* HTTPBasicCredentials
Credentials == [username : Usernames, password : Passwords]

\* UserCreate
UserCreates == [username : Usernames, password : Passwords]

\* the registrations of the scenario of spec section 8
Accounts == {[username |-> "alice", password |-> "pw1"],
             [username |-> "bob", password |-> "pw2"]}

\* JSON bodies a client may send to POST /todos and PUT /todos/{id}:
\* "completed" may be left out and an "owner" key may be added.
Bodies ==
    [title : Titles]
    \cup [title : Titles, completed : BOOLEAN]
    \cup [title : Titles, owner : Usernames]

\* TodoCreate(**body).dict(): unknown keys are dropped, completed defaults
\* to False.
TodoCreate(body) ==
    [title |-> body.title,
     completed |-> IF "completed" \in DOMAIN body THEN body.completed ELSE FALSE]

\* ----------------------------------------------------------- responses

\* The response of a request, kept with the request it answers:
\*   username, password  the credentials sent (for create_user: the UserCreate)
\*   id                  the todo_id the handler was given, 0 when there is
\*                       none or the request was rejected before the handler
\*   req                 the JSON body the handler used, {} when there is
\*                       none or the request was rejected before using it
\*   body                the todo rows returned, {} when there are none
Response(op, status, credentials, id, req, body) ==
    [op |-> op, status |-> status, username |-> credentials.username,
     password |-> credentials.password, id |-> id, req |-> req, body |-> body]

NoCredentials == [username |-> "", password |-> ""]

\* HTTPException(401) raised by the get_current_user dependency
Unauthorized(op, credentials) ==
    Response(op, 401, credentials, 0, {}, {})

\* a threadpool thread outside create_user
Idle == [pc |-> "idle", username |-> "", password |-> ""]

\* returns {} when the request is rejected with 401, {username} otherwise
get_current_user(U, credentials) ==
    LET user == find_user(U, credentials.username) IN
    IF user = {} \/ \A u \in user :
                      ~verify_password(credentials.password, u.hashed_password)
    THEN {}
    ELSE {u.username : u \in user}

\* ----------------------------------------------------------------- Init

TypeOK ==
    /\ users \subseteq UserRows({get_password_hash(p) : p \in Passwords})
    /\ todos \subseteq TodoRows
    /\ \A w \in Threads :
         \/ thread[w] = Idle
         \/ /\ thread[w].pc = "insert"
            /\ thread[w].username \in Usernames
            /\ thread[w].password \in Passwords
    /\ last.status \in {0, 200, 201, 204, 400, 401, 404, 500}
    /\ last.body \subseteq TodoRows
    /\ last.req \subseteq Bodies

Init ==
    /\ users = {}
    /\ todos = {}
    /\ thread = [w \in Threads |-> Idle]
    /\ last = Response("startup", 0, NoCredentials, 0, {}, {})

\* Process start: Base.metadata.drop_all / create_all; no request survives it.
Startup ==
    /\ users' = {}
    /\ todos' = {}
    /\ thread' = [w \in Threads |-> Idle]
    /\ last' = Response("startup", 0, NoCredentials, 0, {}, {})

\* -------------------------------------------------------- create_user

username_taken_never(U, username) == FALSE

\* line 136-137: db_user is truthy
username_taken(U, username) == find_user(U, username) # {}

\* lines 136-138: the existence check
CreateUserQuery(w, user) ==
    /\ thread[w].pc = "idle"
    /\ IF username_taken(users, user.username)
       THEN /\ last' = Response("create_user", 400, user, 0, {}, {})
            /\ UNCHANGED <<users, todos, thread>>
       ELSE /\ thread' = [thread EXCEPT ![w] =
                    [pc |-> "insert", username |-> user.username,
                     password |-> user.password]]
            /\ UNCHANGED <<users, todos, last>>

\* db.add(db_user); db.commit(): the row set after a successful INSERT
insert_user(U, username, hashed_password) ==
    U \cup {[id |-> NextRowId(U), username |-> username,
             hashed_password |-> hashed_password]}

\* lines 140-145: hash, INSERT, commit.  The UNIQUE index on users.username
\* makes the commit raise IntegrityError when the name was taken meanwhile;
\* create_user does not catch it, so the response is 500 and get_db closes
\* the session, which rolls the INSERT back.
CreateUserCommit(w) ==
    /\ thread[w].pc = "insert"
    /\ thread' = [thread EXCEPT ![w] = Idle]
    /\ UNCHANGED todos
    /\ IF \E u \in users : u.username = thread[w].username
       THEN /\ last' = Response("create_user", 500, thread[w], 0, {}, {})
            /\ UNCHANGED users
       ELSE /\ users' = insert_user(users, thread[w].username,
                                    get_password_hash(thread[w].password))
            /\ last' = Response("create_user", 201, thread[w], 0, {}, {})

\* ------------------------------------------------- handler bodies
\* Each returns the status, the rows of the response body and the todos
\* table after the handler.

Outcome(status, body, T) == [status |-> status, body |-> body, todos |-> T]

read_todo_forbidden(T, todo_id, current_user) ==
    LET todo == find_todo(T, todo_id, current_user) IN
    IF todo # {} THEN Outcome(200, todo, T)
    ELSE IF \E t \in T : t.id = todo_id THEN Outcome(403, {}, T)
    ELSE Outcome(404, {}, T)

\* lines 251-254
read_todo(T, todo_id, current_user) ==
    LET todo == find_todo(T, todo_id, current_user) IN
    IF todo = {} THEN Outcome(404, {}, T) ELSE Outcome(200, todo, T)

new_todo_not_completed(T, todo, current_user) ==
    [id |-> NextRowId(T), title |-> todo.title, completed |-> FALSE,
     owner |-> current_user]

\* line 273: TodoDB(**todo.dict(), owner=current_user), id given by the INSERT
new_todo(T, todo, current_user) ==
    [id |-> NextRowId(T), title |-> todo.title, completed |-> todo.completed,
     owner |-> current_user]

\* lines 273-277
create_todo(T, todo, current_user) ==
    LET db_todo == new_todo(T, todo, current_user) IN
    Outcome(201, {db_todo}, T \cup {db_todo})

setattr_completed_only(db_todo, todo) ==
    [db_todo EXCEPT !.completed = todo.completed]

\* lines 306-307: setattr for every key of todo.dict()
setattr_all(db_todo, todo) ==
    [db_todo EXCEPT !.title = todo.title, !.completed = todo.completed]

\* lines 302-311
update_todo(T, todo_id, todo, current_user) ==
    LET found == find_todo(T, todo_id, current_user) IN
    IF found = {} THEN Outcome(404, {}, T)
    ELSE LET updated == {setattr_all(db_todo, todo) : db_todo \in found} IN
         Outcome(200, updated, (T \ found) \cup updated)

delete_rows_of_owner(T, rows) == {t \in T : \A r \in rows : t.owner # r.owner}

\* lines 337-338: db.delete(db_todo); db.commit()
delete_rows(T, rows) == T \ rows

delete_todo_before_check(T, todo_id, current_user) ==
    LET found == find_todo(T, todo_id, current_user) IN
    IF found = {} THEN Outcome(404, {}, {t \in T : t.id # todo_id})
    ELSE Outcome(204, {}, delete_rows(T, found))

\* lines 333-339
delete_todo(T, todo_id, current_user) ==
    LET found == find_todo(T, todo_id, current_user) IN
    IF found = {} THEN Outcome(404, {}, T)
    ELSE Outcome(204, {}, delete_rows(T, found))

\* ------------------------------------------------- protected endpoints
\* A protected request: the get_current_user dependency, which rejects the
\* request before its body is read, then the handler body.

Reject(op, credentials) ==
    /\ last' = Unauthorized(op, credentials)
    /\ UNCHANGED todos

\* the handler's Outcome r is committed and answered
Reply(op, credentials, id, req, r) ==
    /\ last' = Response(op, r.status, credentials, id,
                         IF r.status = 404 THEN {} ELSE req, r.body)
    /\ todos' = r.todos

\* GET /users/me/
ReadUsersMe(credentials) ==
    LET who == get_current_user(users, credentials) IN
    /\ UNCHANGED <<users, thread>>
    /\ IF who = {} THEN Reject("read_users_me", credentials)
       ELSE Reply("read_users_me", credentials, 0, {}, Outcome(200, {}, todos))

\* GET /todos
ReadTodos(credentials) ==
    LET who == get_current_user(users, credentials) IN
    /\ UNCHANGED <<users, thread>>
    /\ IF who = {} THEN Reject("read_todos", credentials)
       ELSE \E current_user \in who :
              Reply("read_todos", credentials, 0, {},
                    Outcome(200, list_todos(todos, current_user), todos))

\* GET /todos/{todo_id}
ReadTodo(credentials, todo_id) ==
    LET who == get_current_user(users, credentials) IN
    /\ UNCHANGED <<users, thread>>
    /\ IF who = {} THEN Reject("read_todo", credentials)
       ELSE \E current_user \in who :
              Reply("read_todo", credentials, todo_id, {},
                    read_todo(todos, todo_id, current_user))

\* POST /todos
CreateTodo(credentials) ==
    LET who == get_current_user(users, credentials) IN
    /\ NextRowId(todos) <= MaxTodoId
    /\ UNCHANGED <<users, thread>>
    /\ IF who = {} THEN Reject("create_todo", credentials)
       ELSE \E current_user \in who, body \in Bodies :
              Reply("create_todo", credentials, 0, {body},
                    create_todo(todos, TodoCreate(body), current_user))

\* PUT /todos/{todo_id}
UpdateTodo(credentials, todo_id) ==
    LET who == get_current_user(users, credentials) IN
    /\ UNCHANGED <<users, thread>>
    /\ IF who = {} THEN Reject("update_todo", credentials)
       ELSE \E current_user \in who, body \in Bodies :
              Reply("update_todo", credentials, todo_id, {body},
                    update_todo(todos, todo_id, TodoCreate(body), current_user))

\* DELETE /todos/{todo_id}
DeleteTodo(credentials, todo_id) ==
    LET who == get_current_user(users, credentials) IN
    /\ UNCHANGED <<users, thread>>
    /\ IF who = {} THEN Reject("delete_todo", credentials)
       ELSE \E current_user \in who :
              Reply("delete_todo", credentials, todo_id, {},
                    delete_todo(todos, todo_id, current_user))

\* ----------------------------------------------------------------- Next

\* POST /users/ served without another request in between: the existence
\* check of CreateUserQuery directly followed by CreateUserCommit.
CreateUser(user) ==
    /\ \A w \in Threads : thread[w].pc = "idle"
    /\ UNCHANGED <<todos, thread>>
    /\ IF username_taken(users, user.username)
       THEN /\ last' = Response("create_user", 400, user, 0, {}, {})
            /\ UNCHANGED users
       ELSE /\ users' = insert_user(users, user.username,
                                    get_password_hash(user.password))
            /\ last' = Response("create_user", 201, user, 0, {}, {})

\* Registration and authentication, with create_user requests interleaving.
NextUsers ==
    \/ Startup
    \/ \E w \in Threads, user \in UserCreates : CreateUserQuery(w, user)
    \/ \E w \in Threads : CreateUserCommit(w)
    \/ \E credentials \in Credentials : ReadUsersMe(credentials)

SpecUsers == Init /\ [][NextUsers]_vars

\* The todo endpoints, with registrations served one at a time.
Next ==
    \/ Startup
    \/ \E user \in Accounts : CreateUser(user)
    \/ \E credentials \in Credentials : ReadUsersMe(credentials)
    \/ \E credentials \in Credentials : ReadTodos(credentials)
    \/ \E credentials \in Credentials, todo_id \in TodoIds :
          ReadTodo(credentials, todo_id)
    \/ \E credentials \in Credentials : CreateTodo(credentials)
    \/ \E credentials \in Credentials, todo_id \in TodoIds :
          UpdateTodo(credentials, todo_id)
    \/ \E credentials \in Credentials, todo_id \in TodoIds :
          DeleteTodo(credentials, todo_id)

Spec == Init /\ [][Next]_vars

\* ================================================================ claims

ProtectedOps == {"read_users_me", "read_todos", "read_todo", "create_todo",
                 "update_todo", "delete_todo"}

\* the credentials a response answers
Sent(r) == [username |-> r.username, password |-> r.password]

\* a user record with this username holds the digest of this password
Registered(U, username, password) ==
    \E u \in U : /\ u.username = username
                 /\ u.hashed_password = get_password_hash(password)

\* what TodoCreate makes of a JSON body, stated from the API description
\* (lines 261-262): the title, and completed or false
Sent_completed(body) ==
    IF "completed" \in DOMAIN body THEN body.completed ELSE FALSE

\* C1: a list, get, update or delete answered for caller B leaves every
\* todo of another owner in the table unchanged, returns only todos owned
\* by B, and ends in 404 when the id is that of another owner's todo.
C1_OwnerIsolation ==
    [][(/\ last'.op \in {"read_todos", "read_todo", "update_todo", "delete_todo"}
        /\ last'.status # 401)
       => /\ \A t \in todos : t.owner # last'.username => t \in todos'
          /\ \A t \in last'.body : t.owner = last'.username
          /\ (/\ last'.op # "read_todos"
              /\ \E t \in todos : t.id = last'.id /\ t.owner # last'.username)
             => last'.status = 404]_vars

\* bob's update of alice's todo was answered 404 and the todo is still there
C1_Witness ==
    /\ last.op = "update_todo"
    /\ last.status = 404
    /\ \E t \in todos : t.id = last.id /\ t.owner # last.username

\* C2: a protected request is answered 401 exactly when no user record
\* holds the claimed username with the digest of the supplied password;
\* a rejected request changes nothing and returns nothing.
C2_AuthenticationDecision ==
    [][last'.op \in ProtectedOps
       => /\ last'.status # 401
               <=> Registered(users, last'.username, last'.password)
          /\ last'.status # 401
               => get_current_user(users, Sent(last')) = {last'.username}
          /\ last'.status = 401
               => /\ get_current_user(users, Sent(last')) = {}
                  /\ users' = users /\ todos' = todos
                  /\ last'.body = {} /\ last'.req = {}]_vars

\* a registered user was rejected for a wrong password
C2_Witness ==
    /\ last.op \in ProtectedOps
    /\ last.status = 401
    /\ \E u \in users : u.username = last.username

\* C3: a get, update or delete by an authenticated caller who owns no todo
\* with the requested id gets one and the same answer, 404 with an empty
\* body, and changes nothing, whether the id is unused or another owner's.
C3_UniformAbsence ==
    [][(/\ last'.op \in {"read_todo", "update_todo", "delete_todo"}
        /\ last'.status # 401
        /\ ~ \E t \in todos : t.id = last'.id /\ t.owner = last'.username)
       => /\ last' = Response(last'.op, 404, Sent(last'), last'.id, {}, {})
          /\ todos' = todos
          /\ users' = users]_vars

\* a delete of another owner's todo was answered 404
C3_Witness ==
    /\ last.op = "delete_todo"
    /\ last.status = 404
    /\ \E t \in todos : t.id = last.id /\ t.owner # last.username

\* C4: a create_user request for a username that has a record never gets
\* past the existence check: it is answered 400, the users table is
\* unchanged, and afterwards the request's password authenticates only if
\* its digest is the stored one.
C4_DuplicateRegistration ==
    [][/\ \A w \in Threads :
            (thread[w].pc = "idle" /\ thread'[w].pc = "insert")
            => ~ \E u \in users : u.username = thread'[w].username
       /\ (/\ thread' = thread
           /\ last'.op = "create_user"
           /\ \E u \in users : u.username = last'.username)
          => /\ last'.status = 400
             /\ users' = users
             /\ todos' = todos
             /\ \A u \in users' :
                  u.username = last'.username
                  => (get_current_user(users', Sent(last')) # {}
                        <=> u.hashed_password
                              = get_password_hash(last'.password))]_vars

\* a second registration of a username, with another password, was refused
C4_Witness ==
    /\ last.op = "create_user"
    /\ last.status = 400
    /\ \E u \in users : /\ u.username = last.username
                        /\ u.hashed_password # get_password_hash(last.password)

\* C5: an authenticated create is answered 201 with a new row whose owner
\* is the caller and whose title and completed are the request's
\* (completed false when left out); the row is added under an unused id
\* and a get by the caller on that id returns it.
C5_CreateRoundTrip ==
    [][(last'.op = "create_todo" /\ last'.status # 401)
       => \E body \in last'.req, db_todo \in last'.body :
            /\ last'.status = 201
            /\ last'.body = {db_todo}
            /\ db_todo.owner = last'.username
            /\ db_todo.title = body.title
            /\ db_todo.completed = Sent_completed(body)
            /\ \A t \in todos : t.id # db_todo.id
            /\ todos' = todos \cup {db_todo}
            /\ read_todo(todos', db_todo.id, last'.username)
                 = Outcome(200, {db_todo}, todos')]_vars

\* a create whose body named another user as owner was stored for the caller
C5_Witness ==
    /\ last.op = "create_todo"
    /\ last.status = 201
    /\ \E body \in last.req :
         "owner" \in DOMAIN body /\ body.owner # last.username
    /\ \E t \in last.body : t \in todos /\ t.owner = last.username

\* C6: an update answered 200 replaces the caller's row of that id by the
\* row with the same id and owner and the request's title and completed,
\* returns it, and changes no other todo row and no user record.
C6_UpdateEffectAndFrame ==
    [][(last'.op = "update_todo" /\ last'.status = 200)
       => \E body \in last'.req, old \in todos :
            LET new == [id |-> old.id, title |-> body.title,
                        completed |-> Sent_completed(body),
                        owner |-> old.owner] IN
            /\ old.id = last'.id
            /\ old.owner = last'.username
            /\ todos' = (todos \ {old}) \cup {new}
            /\ last'.body = {new}
            /\ users' = users]_vars

\* an update succeeded while another user's todo was in the table
C6_Witness ==
    /\ last.op = "update_todo"
    /\ last.status = 200
    /\ \E t \in todos : t.owner # last.username

\* C7: a delete answered 204 removes exactly the caller's row of that id;
\* in the resulting table a get of that id by the caller is answered 404
\* and a second delete is answered 404 and changes nothing.
C7_Delete ==
    [][(last'.op = "delete_todo" /\ last'.status = 204)
       => \E old \in todos :
            /\ old.id = last'.id
            /\ old.owner = last'.username
            /\ todos' = todos \ {old}
            /\ users' = users
            /\ last'.body = {}
            /\ read_todo(todos', last'.id, last'.username)
                 = Outcome(404, {}, todos')
            /\ delete_todo(todos', last'.id, last'.username)
                 = Outcome(404, {}, todos')]_vars

\* a delete succeeded and left another todo of the same owner in the table
C7_Witness ==
    /\ last.op = "delete_todo"
    /\ last.status = 204
    /\ \E t \in todos : t.owner = last.username

\* C8: a request answered 400, 401 or 404 leaves the users table and the
\* todos table as they were.
C8_NoEffectOnFailure ==
    [][last'.status \in {400, 401, 404}
       => users' = users /\ todos' = todos]_vars

\* a duplicate registration was refused while todos were stored
C8_Witness ==
    /\ last.op = "create_user"
    /\ last.status = 400
    /\ todos # {}

\* C9: a user record, once stored, is in the users table unchanged in
\* every later state, process starts included, and the owner of every
\* stored todo is a registered username.
C9_UserRecordLifetime ==
    /\ [][\A u \in users : u \in users']_vars
    /\ [](\A t \in todos : \E u \in users : u.username = t.owner)

\* C10: with create_user requests interleaving, no two user records share
\* a username and every create_user request ends with 201 or with 400.
C10_ConcurrentRegistration ==
    /\ \A u, v \in users : u.username = v.username => u = v
    /\ last.op = "create_user" => last.status \in {201, 400}

====
